---- MODULE Spec2Model ----
(***************************************************************************)
(* A model of model_ors (or_wait_times.py): the minute-by-minute           *)
(* simulation of patients queueing for a pool of operating rooms.          *)
(*                                                                         *)
(* One behaviour of the model is one call of model_ors.  The arguments of  *)
(* the call are chosen in Init and never change.  The random draws         *)
(* (numpy.random.poisson, numpy.random.lognormal) are nondeterministic     *)
(* choices from small sets.  Classes are numbered from 0 as in the source; *)
(* queues, n_patients, utilization_frac are functions on 0..n-1.           *)
(***************************************************************************)
EXTENDS Integers, Sequences, FiniteSets, TLC

\* ------------------------------------------------------------------------
\* Bounds of the model
\* ------------------------------------------------------------------------
MaxRooms == 2        \* n_day_oprooms, n_night_oprooms are at most this
MaxArrivals == 3     \* patients enqueued in one run, over all classes
MaxSurgery == 1      \* largest surgery_time drawn
MaxExperiment == 2   \* largest experiment_length of a short run
BusyTicks == 3       \* patients arrive in the last BusyTicks minutes of a run

\* ------------------------------------------------------------------------
\* Program constants
\* ------------------------------------------------------------------------
day_to_min == 1440
hour_to_min == 60
default_min_dayonly_class == 3

\* The value of a name that has not been assigned yet (n_oprooms before the
\* first tick).
Unbound == 0 - 1

VARIABLES
  \* the arguments of the call
  n_day_oprooms, distribution_parameters, n_night_oprooms, min_dayonly_class,
  night_length, converge_time, experiment_length, cleaning_time,
  \* the locals of model_ors
  operating_rooms, queues, utilization_frac, results,
  time, n_patients, n_oprooms, utilization_results,
  \* where the call is, and the exception it ended with
  pc, exception,
  \* observers: arrivals enqueued and patients admitted so far, per class,
  \* and whether class 0 still had a waiting patient at the end of every tick
  enqueued, admitted, class0_waiting

args == <<n_day_oprooms, distribution_parameters, n_night_oprooms,
          min_dayonly_class, night_length, converge_time, experiment_length,
          cleaning_time>>
locals == <<operating_rooms, queues, utilization_frac, results, time,
            n_patients, n_oprooms, utilization_results>>
observers == <<enqueued, admitted, class0_waiting>>
vars == <<args, locals, pc, exception, observers>>

\* ------------------------------------------------------------------------
\* Helpers
\* ------------------------------------------------------------------------
Max(a, b) == IF a >= b THEN a ELSE b

RECURSIVE SumTo(_, _)
SumTo(f, n) == IF n < 0 THEN 0 ELSE f[n] + SumTo(f, n - 1)

\* sum of a function on 0..n-1 (0 for the empty function)
Sum(f) == SumTo(f, Cardinality(DOMAIN f) - 1)

\* k copies of t, as a list
Repeat(t, k) == [i \in 1..k |-> t]

n_classes == Len(distribution_parameters)
Classes == 0..(n_classes - 1)

\* ------------------------------------------------------------------------
\* Typechecking (lines 87-131); all values of the model are ints, so only
\* the ValueError branches can be taken
\* ------------------------------------------------------------------------
Typechecking ==
  /\ ~(n_day_oprooms <= 0)
  /\ \A c \in 1..n_classes : \A i \in 1..3 : ~(distribution_parameters[c][i] < 0)
  /\ ~(n_night_oprooms > n_day_oprooms)
  /\ ~(n_night_oprooms < 0)
  /\ ~(night_length < 0)
  /\ ~(converge_time < 0)
  /\ ~(experiment_length < 0)
  /\ ~(cleaning_time < 0)

\* ------------------------------------------------------------------------
\* The random draws
\* ------------------------------------------------------------------------
\* minutes in which the model lets patients arrive: the last BusyTicks
\* minutes of the run (every minute of a short run)
Busy(t) == t + BusyTicks >= experiment_length + converge_time

\* numpy.random.poisson(rate): 0 for rate 0
Poisson(rate, t, room) ==
  IF rate = 0 \/ ~Busy(t) THEN {0} ELSE 0..room

\* [numpy.random.poisson(x[0]) for x in distribution_parameters], with at
\* most room patients in all
ArrivalDraws(t, room) ==
  { np \in [Classes -> 0..room] :
      /\ \A j \in Classes :
           np[j] \in Poisson(distribution_parameters[j + 1][1], t, room)
      /\ Sum(np) <= room }

\* int(round(numpy.random.lognormal(mu, sigma))): round(exp(mu)) for sigma 0
Lognormal(mu, sigma) ==
  IF sigma = 0 THEN {IF mu = 0 THEN 1 ELSE MaxSurgery} ELSE 0..MaxSurgery

\* ------------------------------------------------------------------------
\* The steps of one tick
\* ------------------------------------------------------------------------
\* time % day_to_min > night_length * hour_to_min
is_day(t) == (t % day_to_min) > night_length * hour_to_min

\* n_oprooms of the tick
Capacity(t) == IF is_day(t) THEN n_day_oprooms ELSE n_night_oprooms

\* a variant of Enqueue that inserts the arrivals at the head
EnqueueAtHead(qs, np, t) == [j \in Classes |-> Repeat(t, np[j]) \o qs[j]]

\* queues[j].append(time), n_patients[j] times
Enqueue(qs, np, t) == [j \in Classes |-> qs[j] \o Repeat(t, np[j])]

\* a variant of Release that runs one minute late, as it would if the
\* release step came after the admissions of the tick
ReleaseLate(rooms, t) == SelectSeq(rooms, LAMBDA x : x # t - 1)

\* [x for x in operating_rooms if x != time]
Release(rooms, t) == SelectSeq(rooms, LAMBDA x : x # t)

\* a variant of Remove that drops every element equal to v
RemoveAll(q, v) == SelectSeq(q, LAMBDA x : x # v)

\* list.remove(v): drops the first element equal to v
Remove(q, v) ==
  LET i == CHOOSE k \in 1..Len(q) : q[k] = v /\ \A m \in 1..(k - 1) : q[m] # v
  IN  SubSeq(q, 1, i - 1) \o SubSeq(q, i + 1, Len(q))

\* a variant of CanAdmit with <= for <
CanAdmitAtCapacity(s, j) ==
  Len(s.operating_rooms) <= s.n_oprooms /\ Len(s.queues[j]) > 0

\* len(operating_rooms) < n_oprooms and len(queues[j]) > 0
CanAdmit(s, j) == Len(s.operating_rooms) < s.n_oprooms /\ Len(s.queues[j]) > 0

\* if queues[j][0] > converge_time
Recorded(arrival) == arrival > converge_time

\* a variant of Record that takes the time of day of the admission minute
RecordAtAdmission(j, arrival, t, surgery_time) ==
  <<j, arrival - converge_time,
    IF is_day(t) THEN "day" ELSE "night",
    t - arrival, surgery_time>>

\* a variant of Record with the wait and the surgery time in each other's
\* place
RecordSwapped(j, arrival, t, surgery_time) ==
  <<j, arrival - converge_time,
    IF is_day(arrival) THEN "day" ELSE "night",
    surgery_time, t - arrival>>

\* the row appended to results
Record(j, arrival, t, surgery_time) ==
  <<j, arrival - converge_time,
    IF is_day(arrival) THEN "day" ELSE "night",
    t - arrival, surgery_time>>

\* time + surgery_time + cleaning_time
OutTime(t, surgery_time) == t + surgery_time + cleaning_time

\* a variant of AdmitClass with lines 188-197 indented under the test of
\* line 180: only a recorded patient leaves the queue and takes a room
AdmitClassRecordedOnly(s, j, t, surgery_time) ==
  IF CanAdmit(s, j) /\ Recorded(s.queues[j][1])
  THEN LET arrival == s.queues[j][1]
       IN  [s EXCEPT
             !.results = Append(@, Record(j, arrival, t, surgery_time)),
             !.queues[j] = Remove(@, arrival),
             !.operating_rooms = Append(@, OutTime(t, surgery_time)),
             !.admitted[j] = @ + 1]
  ELSE s

\* the body of the admission loop for class j (lines 169-197)
AdmitClass(s, j, t, surgery_time) ==
  IF CanAdmit(s, j)
  THEN LET arrival == s.queues[j][1]
       IN  [s EXCEPT
             !.results = IF Recorded(arrival)
                         THEN Append(@, Record(j, arrival, t, surgery_time))
                         ELSE @,
             !.queues[j] = Remove(@, arrival),
             !.operating_rooms = Append(@, OutTime(t, surgery_time)),
             !.admitted[j] = @ + 1]
  ELSE s

\* a variant of AdmitLoop with while for if: class j is admitted for as long
\* as a room is free and a patient of the class waits
RECURSIVE AdmitLoopBatch(_, _, _)
AdmitLoopBatch(s, j, t) ==
  IF j >= n_classes THEN {s}
  ELSE IF CanAdmit(s, j)
  THEN UNION { AdmitLoopBatch(AdmitClass(s, j, t, d), j, t) :
                 d \in Lognormal(distribution_parameters[j + 1][2],
                                 distribution_parameters[j + 1][3]) }
  ELSE AdmitLoopBatch(s, j + 1, t)

\* a variant of AdmitLoop that considers the classes in descending order
RECURSIVE AdmitLoopDescending(_, _, _)
AdmitLoopDescending(s, j, t) ==
  LET c == n_classes - 1 - j
  IN  IF j >= n_classes THEN {s}
      ELSE IF CanAdmit(s, c)
      THEN UNION { AdmitLoopDescending(AdmitClass(s, c, t, d), j + 1, t) :
                     d \in Lognormal(distribution_parameters[c + 1][2],
                                     distribution_parameters[c + 1][3]) }
      ELSE AdmitLoopDescending(s, j + 1, t)

\* for j in range(n_classes), from class j on: the states the loop can end
\* in, one for every surgery_time drawn for an admitted patient
RECURSIVE AdmitLoop(_, _, _)
AdmitLoop(s, j, t) ==
  IF j >= n_classes THEN {s}
  ELSE IF CanAdmit(s, j)
  THEN UNION { AdmitLoop(AdmitClass(s, j, t, d), j + 1, t) :
                 d \in Lognormal(distribution_parameters[j + 1][2],
                                 distribution_parameters[j + 1][3]) }
  ELSE AdmitLoop(s, j + 1, t)

\* if time > converge_time
Sampled(t) == t > converge_time

\* utilization_frac[len(operating_rooms)] += 1
Utilization(u, rooms, t) ==
  IF Sampled(t) THEN [u EXCEPT ![Len(rooms)] = @ + 1] ELSE u

\* ------------------------------------------------------------------------
\* The call
\* ------------------------------------------------------------------------
\* (arrival rate, mean, sigma) of one class: patients arrive; none arrive;
\* and one triple per item that the typechecking rejects
ArrivingClass == <<1, 0, 1>>
IdleClass == <<0, 0, 1>>
BadClasses == { <<0 - 1, 0, 1>>, <<1, 0 - 1, 1>>, <<1, 0, 0 - 1>> }

ParamLists ==
  { <<ArrivingClass>>, <<ArrivingClass, ArrivingClass>> }
  \cup { <<b>> : b \in BadClasses }
  \cup { <<ArrivingClass, b>> : b \in BadClasses }

MinDayonlyChoices == {1, default_min_dayonly_class}
NightChoices == {0 - 1, 0, 1}

\* how many of the checks of the typechecking the arguments fail
BadArguments ==
  LET bad(b) == IF b THEN 1 ELSE 0
  IN  bad(n_day_oprooms <= 0)
      + bad(\E c \in 1..n_classes : \E i \in 1..3 :
              distribution_parameters[c][i] < 0)
      + bad(n_night_oprooms > n_day_oprooms)
      + bad(n_night_oprooms < 0)
      + bad(night_length < 0)
      + bad(converge_time < 0)
      + bad(experiment_length < 0)
      + bad(cleaning_time < 0)

InitLocals ==
  /\ operating_rooms = <<>>
  /\ queues = <<>>
  /\ utilization_frac = <<>>
  /\ results = <<>>
  /\ time = 0
  /\ n_patients = <<>>
  /\ n_oprooms = Unbound
  /\ utilization_results = <<>>
  /\ pc = "typecheck"
  /\ exception = "none"
  /\ enqueued = <<>>
  /\ admitted = <<>>
  /\ class0_waiting = TRUE

\* short runs: every combination of valid arguments, and every call with
\* one invalid argument
Init ==
  /\ n_day_oprooms \in 0..MaxRooms
  /\ n_night_oprooms \in (0 - 1)..MaxRooms
  /\ distribution_parameters \in ParamLists
  /\ min_dayonly_class \in MinDayonlyChoices
  /\ night_length \in NightChoices
  /\ converge_time \in {0 - 1, 0, 1}
  /\ experiment_length \in (0 - 1)..MaxExperiment
  /\ cleaning_time \in {0 - 1, 0, 1}
  /\ BadArguments <= 1
  /\ InitLocals

\* runs of a day and more, which reach the drop from the day capacity to the
\* night capacity at minute day_to_min
InitDay ==
  /\ n_day_oprooms \in 0..MaxRooms
  /\ n_night_oprooms \in 0..MaxRooms
  /\ distribution_parameters \in
       { <<ArrivingClass>>, <<ArrivingClass, ArrivingClass>> }
  /\ min_dayonly_class = 1
  /\ night_length \in {0, 1}
  /\ converge_time = 0
  /\ experiment_length = day_to_min + MaxExperiment
  /\ cleaning_time \in {0, 1}
  /\ BadArguments <= 1
  /\ InitLocals

\* raise ValueError
TypecheckRaise ==
  /\ pc = "typecheck"
  /\ ~Typechecking
  /\ pc' = "raised"
  /\ exception' = "ValueError"
  /\ UNCHANGED <<args, locals, observers>>

\* lines 137-143
TypecheckPass ==
  /\ pc = "typecheck"
  /\ Typechecking
  /\ operating_rooms' = <<>>
  /\ queues' = [j \in Classes |-> <<>>]
  /\ utilization_frac' = [i \in 0..n_day_oprooms |-> 0]
  /\ results' = <<>>
  /\ enqueued' = [j \in Classes |-> 0]
  /\ admitted' = [j \in Classes |-> 0]
  /\ pc' = "loop"
  /\ UNCHANGED <<args, time, n_patients, n_oprooms, utilization_results,
                 exception, class0_waiting>>

\* one pass of the body of: for time in range(int(experiment_length + converge_time))
Tick ==
  /\ pc = "loop"
  /\ time < experiment_length + converge_time
  /\ \E np \in ArrivalDraws(time, MaxArrivals - Sum(enqueued)) :
       LET s0 == [queues |-> Enqueue(queues, np, time),
                  operating_rooms |-> Release(operating_rooms, time),
                  n_oprooms |-> Capacity(time),
                  results |-> results,
                  admitted |-> admitted]
       IN  \E s1 \in AdmitLoop(s0, 0, time) :
              /\ n_patients' = np
              /\ enqueued' = [j \in Classes |-> enqueued[j] + np[j]]
              /\ n_oprooms' = s0.n_oprooms
              /\ queues' = s1.queues
              /\ operating_rooms' = s1.operating_rooms
              /\ results' = s1.results
              /\ admitted' = s1.admitted
              /\ utilization_frac' =
                   Utilization(utilization_frac, s1.operating_rooms, time)
              /\ class0_waiting' = (class0_waiting /\ Len(s1.queues[0]) > 0)
  /\ time' = time + 1
  /\ UNCHANGED <<args, utilization_results, pc, exception>>

\* lines 202-207: the loop is over; build utilization_results and return
Return ==
  /\ pc = "loop"
  /\ time >= experiment_length + converge_time
  /\ IF n_oprooms = Unbound
     THEN /\ pc' = "raised"
          /\ exception' = "UnboundLocalError"
          /\ UNCHANGED utilization_results
     ELSE IF experiment_length - converge_time = 0
     THEN /\ pc' = "raised"
          /\ exception' = "ZeroDivisionError"
          /\ UNCHANGED utilization_results
     ELSE /\ pc' = "returned"
          /\ utilization_results' =
               [i \in 0..n_day_oprooms |->
                 <<<<i, n_oprooms>>,
                   <<utilization_frac[i], experiment_length - converge_time>>>>]
          /\ UNCHANGED exception
  /\ UNCHANGED <<args, operating_rooms, queues, utilization_frac, results,
                 time, n_patients, n_oprooms, observers>>

Next == TypecheckRaise \/ TypecheckPass \/ Tick \/ Return

Spec == Init /\ [][Next]_vars

SpecDay == InitDay /\ [][Next]_vars

\* ------------------------------------------------------------------------
\* Properties
\* ------------------------------------------------------------------------
\* the typechecking has passed and lines 140-143 have run
Created == pc # "typecheck" /\ exception # "ValueError"

\* the step is one pass of the loop body, for minute `time`
TickStep == pc = "loop" /\ time' = time + 1

\* the queue of class j when the admission loop of the step starts
QueueAtLoop(j) == Enqueue(queues, n_patients', time)[j]

\* the rooms still occupied when the admission loop of the step starts
RoomsAtLoop == Release(operating_rooms, time)

\* the rows the step appends to results
NewResults == SubSeq(results', Len(results) + 1, Len(results'))

Sorted(q) == \A a, b \in 1..Len(q) : a <= b => q[a] <= q[b]

\* a minute of the night window under the source and under the
\* specification's reading of it (the first night_length * 60 minutes)
InNightWindow(t) == (t % day_to_min) < night_length * hour_to_min

\* the occupied rooms whose release time is still ahead of the clock (time
\* is the minute of the next tick)
RoomsInUse == SelectSeq(operating_rooms, LAMBDA x : x >= time)

\* C1, as stated: at the end of every tick the number of occupied rooms is
\* at most the capacity in force at that tick.  Only the rooms whose release
\* time is still ahead are counted, so that the violation does not rest on a
\* room that no release step will ever free.
C1_OccupiedWithinCapacity ==
  (Created /\ time > 0) => Len(RoomsInUse) <= n_oprooms

\* C1, amended: at the end of every tick the number of occupied rooms is at
\* most the larger of the capacity in force at that tick and the number of
\* rooms still occupied after the release step of that tick: admissions
\* never take the pool above the capacity, and rooms occupied before the
\* capacity drops stay occupied until their release time.
C1_AdmissionsWithinCapacity ==
  [][TickStep =>
       Len(operating_rooms') <= Max(Capacity(time), Len(RoomsAtLoop))]_vars

\* C1, witness: after the drop to the night capacity at minute day_to_min
\* more rooms are occupied than the night capacity.
C1_Witness ==
  /\ Created
  /\ time > day_to_min
  /\ n_oprooms = n_night_oprooms
  /\ n_night_oprooms < n_day_oprooms
  /\ Len(RoomsInUse) > n_oprooms

\* C2, as stated: no patient of a class with ordinal >= min_dayonly_class is
\* admitted at a tick of the night window.
C2_DayOnlyWaitsForDay ==
  [][TickStep =>
       \A j \in Classes :
         (j >= min_dayonly_class /\ InNightWindow(time))
           => admitted'[j] = admitted[j]]_vars

\* C3: for every class the arrivals enqueued so far are the admissions so
\* far plus the queue length, and every admission of a tick removes one
\* queue entry, occupies one room and appends at most one row to results.
C3_Conservation ==
  [][/\ pc' = "loop" =>
          \A j \in Classes : enqueued'[j] = admitted'[j] + Len(queues'[j])
     /\ TickStep =>
          LET k == Sum(admitted') - Sum(admitted)
          IN  /\ Len(operating_rooms') = Len(RoomsAtLoop) + k
              /\ Len(results') - Len(results) \in 0..k
              /\ \A j \in Classes :
                   /\ admitted'[j] - admitted[j] \in {0, 1}
                   /\ Len(queues'[j]) =
                        Len(QueueAtLoop(j)) - (admitted'[j] - admitted[j])
    ]_vars

\* C3, witness: a class has admitted patients, waiting patients, and a row
\* in results.
C3_Witness ==
  /\ Created
  /\ \E j \in Classes :
       /\ admitted[j] >= 2
       /\ Len(queues[j]) >= 1
       /\ \E i \in 1..Len(results) : results[i][1] = j

\* C4: every queue is non-decreasing from head to tail, and an admission
\* removes the entry at the head, which is a minimum of the queue.
C4_Fifo ==
  [][TickStep =>
       \A j \in Classes :
         LET q == QueueAtLoop(j)
         IN  /\ Sorted(queues'[j])
             /\ admitted'[j] > admitted[j] =>
                  /\ queues'[j] = Tail(q)
                  /\ \A i \in 1..Len(q) : q[1] <= q[i]
             /\ admitted'[j] = admitted[j] => queues'[j] = q
    ]_vars

\* C4, witness: a patient has been admitted from a queue in which patients
\* that arrived in the same minute are still waiting behind others.
C4_Witness ==
  /\ Created
  /\ \E j \in Classes :
       /\ admitted[j] >= 1
       /\ Len(queues[j]) >= 2
       /\ queues[j][1] = queues[j][2]

\* C5, as stated: when the tick loop is over, the buckets of the
\* utilization histogram add up to experiment_length.
C5_HistogramSum ==
  (Created /\ time >= experiment_length + converge_time)
    => Sum(utilization_frac) = experiment_length

\* C6, as stated: in a two-class run in which class 0 has a waiting patient
\* at every tick, no class 1 patient is ever admitted.
C6_Class1Starved ==
  (Created /\ n_classes = 2 /\ class0_waiting) => admitted[1] = 0

\* C6, amended: in a two-class run, at a tick at which class 0 has a waiting
\* patient, a class 1 patient is admitted only after a class 0 patient was
\* admitted at that tick and only when at least two rooms were free under
\* the capacity in force after the release step; with at most one room free
\* class 1 is not admitted.
C6_Class1NeedsSecondRoom ==
  [][(TickStep /\ n_classes = 2 /\ Len(QueueAtLoop(0)) > 0
        /\ admitted'[1] > admitted[1])
       => /\ admitted'[0] > admitted[0]
          /\ Capacity(time) - Len(RoomsAtLoop) >= 2]_vars

\* C6, witness: class 0 has had a waiting patient at every tick, has been
\* served, and class 1 is waiting and has never been admitted.
C6_Witness ==
  /\ Created
  /\ n_classes = 2
  /\ time >= 2
  /\ class0_waiting
  /\ admitted[0] >= 1
  /\ Len(queues[1]) >= 1
  /\ admitted[1] = 0

\* C7, as stated: an admitted patient yields a row in results if and only if
\* its arrival time is >= converge_time, the row holding the arrival time
\* less converge_time.
C7_RecordedFromWarmup ==
  [][TickStep =>
       \A j \in Classes :
         admitted'[j] > admitted[j] =>
           LET arrival == QueueAtLoop(j)[1]
           IN  (arrival >= converge_time)
                 <=> \E i \in 1..Len(NewResults) :
                       /\ NewResults[i][1] = j
                       /\ NewResults[i][2] = arrival - converge_time]_vars

\* C8, as stated: a call with valid arguments runs its loop for exactly
\* converge_time + experiment_length ticks and then returns.
C8_Returns ==
  Typechecking =>
    /\ time <= converge_time + experiment_length
    /\ pc = "returned" => time = converge_time + experiment_length
    /\ pc # "raised"
    /\ pc = "returned" \/ ENABLED Next

\* C10, as stated: a call with an invalid argument ends in an error before
\* any tick and before any state is created, and no error is raised once a
\* tick has run.
C10_EagerValidation ==
  /\ ~Typechecking =>
       /\ pc \in {"typecheck", "raised"}
       /\ time = 0
       /\ queues = <<>> /\ operating_rooms = <<>> /\ results = <<>>
       /\ utilization_frac = <<>>
       /\ pc = "typecheck" \/ exception = "ValueError"
  /\ pc = "raised" => time = 0

\* C11, as stated: computing the utilization table never divides by zero,
\* for every valid converge_time and experiment_length.
C11_NoDivisionByZero ==
  Typechecking => exception # "ZeroDivisionError"

\* C12, as stated: the capacity resolved for a tick is n_night_oprooms
\* exactly when the minute of the day is one of the first night_length * 60
\* minutes, and n_day_oprooms for every other minute.
C12_NightWindow ==
  (Created /\ time > 0) =>
    n_oprooms = IF InNightWindow(time - 1) THEN n_night_oprooms
                ELSE n_day_oprooms

\* C13, as stated: the entry of the returned table for level i is
\* utilization_frac[i] over experiment_length, the numerators add up to the
\* denominator, and the denominator is never negative.
C13_Fractions ==
  pc = "returned" =>
    /\ \A i \in 0..n_day_oprooms :
         /\ utilization_results[i][2][1] = utilization_frac[i]
         /\ utilization_results[i][2][2] = experiment_length
         /\ utilization_results[i][2][2] >= 0
    /\ Sum(utilization_frac) = utilization_results[0][2][2]

\* C16, as stated: after the release step of a tick no occupied room has a
\* release time at or before the minute of the tick.
C16_ReleasedWhenDue ==
  [][TickStep =>
       \A i \in 1..Len(RoomsAtLoop) : RoomsAtLoop[i] > time]_vars

\* the patients of class j admitted by the step
AdmittedNow(j) == admitted'[j] - admitted[j]

\* the rooms in use when the admission loop reaches class j: those left by
\* the release step and those taken by the classes before j at this tick
RECURSIVE RoomsAtTurn(_)
RoomsAtTurn(j) ==
  IF j = 0 THEN Len(RoomsAtLoop) ELSE RoomsAtTurn(j - 1) + AdmittedNow(j - 1)

\* C14: strict priority within a tick.  Whenever a patient of class j is
\* admitted at a tick, every class i < j that had a waiting patient at that
\* tick had a patient admitted at it too (whether or not i was eligible); a
\* class that was refused with a patient waiting shuts out every class after
\* it.
C14_StrictPriority ==
  [][TickStep =>
       \A i \in Classes : \A j \in Classes :
         (i < j /\ Len(QueueAtLoop(i)) > 0 /\ AdmittedNow(i) = 0)
           => AdmittedNow(j) = 0]_vars

\* C14, witness: both classes had a patient admitted at tick 0.
C14_Witness ==
  /\ Created
  /\ n_classes = 2
  /\ time = 1
  /\ admitted[0] = 1
  /\ admitted[1] = 1

\* C15: a tick admits at most one patient of each class, hence at most
\* n_classes patients, even when a queue holds several patients and several
\* rooms are free; the other patients of the class stay in the queue.
C15_OnePerClass ==
  [][TickStep =>
       /\ \A j \in Classes :
            /\ AdmittedNow(j) <= 1
            /\ Len(queues'[j]) >= Len(QueueAtLoop(j)) - 1
       /\ Len(operating_rooms') - Len(RoomsAtLoop) <= n_classes]_vars

\* C15, witness: two patients of class 0 arrived at tick 0 with two rooms
\* free; one was admitted, one waits and one room is still free.
C15_Witness ==
  /\ Created
  /\ time = 1
  /\ n_oprooms = 2
  /\ enqueued[0] >= 2
  /\ admitted[0] = 1
  /\ Len(queues[0]) >= 1
  /\ Len(operating_rooms) = 1

\* C18: a patient of class j is admitted only when the queue of the class is
\* not empty and the rooms in use immediately before the admission are fewer
\* than the capacity of the tick; every admission takes one patient off its
\* queue and adds one room.
C18_AdmissionGuard ==
  [][TickStep =>
       /\ \A j \in Classes :
            AdmittedNow(j) > 0 =>
              /\ Len(QueueAtLoop(j)) > 0
              /\ RoomsAtTurn(j) < Capacity(time)
              /\ Len(queues'[j]) = Len(QueueAtLoop(j)) - AdmittedNow(j)
       /\ Len(operating_rooms') = RoomsAtTurn(n_classes)]_vars

\* C18, witness: every room of the capacity in force is in use after an
\* admission, and a patient who was refused waits.
C18_Witness ==
  /\ Created
  /\ time >= 1
  /\ n_oprooms >= 1
  /\ Len(operating_rooms) = n_oprooms
  /\ Sum(admitted) >= 1
  /\ \E j \in Classes : Len(queues[j]) > 0

\* The queueing dynamics of one tick written without converge_time: from the
\* queues q and the rooms r reached by the enqueue and release steps, the
\* pairs of queues and rooms the admissions of minute t can leave.
RECURSIVE DynamicsLoop(_, _, _, _)
DynamicsLoop(q, r, j, t) ==
  IF j >= n_classes THEN { <<q, r>> }
  ELSE IF Len(r) < Capacity(t) /\ Len(q[j]) > 0
  THEN UNION { DynamicsLoop([q EXCEPT ![j] = Tail(@)],
                            Append(r, t + d + cleaning_time), j + 1, t) :
                 d \in Lognormal(distribution_parameters[j + 1][2],
                                 distribution_parameters[j + 1][3]) }
  ELSE DynamicsLoop(q, r, j + 1, t)

\* C17: the warm-up does not influence the queueing dynamics.  At every tick
\* and for every arrival count, the queues and rooms the tick can leave (one
\* outcome per surgery time drawn, which the release time of the new room
\* carries) are those of the dynamics written without converge_time; two
\* runs that differ only in converge_time and are given the same draws
\* therefore have the same queues and rooms at every tick both execute.
C17_WarmupFreeDynamics ==
  (pc = "loop" /\ time < experiment_length + converge_time) =>
    \A np \in ArrivalDraws(time, MaxArrivals - Sum(enqueued)) :
      LET q0 == Enqueue(queues, np, time)
          r0 == Release(operating_rooms, time)
          s0 == [queues |-> q0,
                 operating_rooms |-> r0,
                 n_oprooms |-> Capacity(time),
                 results |-> results,
                 admitted |-> admitted]
      IN  { <<s1.queues, s1.operating_rooms>> : s1 \in AdmitLoop(s0, 0, time) }
            = DynamicsLoop(q0, r0, 0, time)

\* C17, witness: a run with a warm-up that has admitted a patient during it
\* and reaches a tick after it with a patient of the warm-up still waiting,
\* so that the tick can admit patients with and without a record.
C17_Witness ==
  /\ pc = "loop"
  /\ time < experiment_length + converge_time
  /\ converge_time >= 1
  /\ time > converge_time
  /\ Sum(admitted) >= 1
  /\ \E j \in Classes : Len(queues[j]) > 0

\* C19: the time of day of a record is that of the minute the patient
\* arrived, by the test that selects the capacity of a tick, and not that of
\* the minute of admission: the row of a patient who arrives at night and is
\* admitted by day says "night".
C19_TimeOfDayOfArrival ==
  Created =>
    \A k \in 1..Len(results) :
      LET arrival == results[k][2] + converge_time
      IN  /\ results[k][3] = IF is_day(arrival) THEN "day" ELSE "night"
          /\ Capacity(arrival) = IF results[k][3] = "night"
                                 THEN n_night_oprooms ELSE n_day_oprooms

\* C19, witness: a recorded patient who arrived at night, waited, and was
\* admitted at a day minute; the row says "night".
C19_Witness ==
  /\ Created
  /\ \E k \in 1..Len(results) :
       /\ results[k][3] = "night"
       /\ results[k][4] > 0
       /\ is_day(results[k][2] + converge_time + results[k][4])

\* the rooms whose release time is the minute of the tick
DueRooms == SelectSeq(operating_rooms, LAMBDA x : x = time)

\* C20: a tick enqueues its arrivals, releases the due rooms, resolves the
\* capacity and admits, in this order.  (a) A patient who arrives at a tick
\* into an empty queue of the class, with a room free under the capacity when
\* the admission loop reaches the class, is admitted at that tick, and a row
\* written for the patient has wait 0.  (b) When a room is due at a tick,
\* the rooms that are not due are fewer than the capacity and a patient
\* waits, a patient is admitted at that very tick.
C20_OrderWithinTick ==
  [][TickStep =>
       /\ \A j \in Classes :
            (Len(queues[j]) = 0 /\ n_patients'[j] = 1
               /\ RoomsAtTurn(j) < Capacity(time))
              => /\ AdmittedNow(j) = 1
                 /\ queues'[j] = <<>>
                 /\ time > converge_time =>
                      \E k \in 1..Len(NewResults) :
                        /\ NewResults[k][1] = j
                        /\ NewResults[k][2] = time - converge_time
                        /\ NewResults[k][4] = 0
       /\ (/\ Len(DueRooms) > 0
           /\ Len(operating_rooms) - Len(DueRooms) < Capacity(time)
           /\ \E j \in Classes : Len(QueueAtLoop(j)) > 0)
            => \E j \in Classes : AdmittedNow(j) = 1]_vars

\* C20, witness: one room under every capacity of the run and two admissions
\* in two ticks: the room taken at tick 0 was released at tick 1 and taken
\* again at tick 1 by the patient who arrived at tick 1, recorded with wait 0.
C20_Witness ==
  /\ Created
  /\ time = 2
  /\ n_day_oprooms = 1
  /\ Sum(admitted) = 2
  /\ \E k \in 1..Len(results) :
       results[k][2] + converge_time = 1 /\ results[k][4] = 0

C22_IndexInRange ==
  Created =>
    /\ Len(operating_rooms) \in 0..n_day_oprooms
    /\ DOMAIN utilization_frac = 0..n_day_oprooms

\* C22, witness: a sampled night tick, after the drop of the capacity, with
\* n_day_oprooms rooms in use, more than the night capacity, counted in the
\* last bucket.
C22_Witness ==
  /\ Created
  /\ time > day_to_min
  /\ n_oprooms < n_day_oprooms
  /\ Len(operating_rooms) = n_day_oprooms
  /\ utilization_frac[n_day_oprooms] >= 1

====
